---- MODULE Spec2Model ----
(***************************************************************************)
(* A model of the natural-language Kubernetes query agent (src/main.py):   *)
(* one HTTP request travels through query_kubernetes, interpret_query,     *)
(* perform_kubernetes_action and one handler.  The language model and the  *)
(* cluster control plane are external: every reply they can give is a      *)
(* nondeterministic input of the action that makes the call.               *)
(*                                                                         *)
(* Python strings that the code edits character by character are tuples of *)
(* one-character strings; Str turns such a tuple into a TLA+ string where  *)
(* the code only compares or prints it.                                    *)
(***************************************************************************)
EXTENDS Naturals, Integers, Sequences, FiniteSets, TLC

(* ------------------------------ bounds --------------------------------- *)
\* the longest list the control plane returns (namespaces, listed objects)
MaxItems == 2

(* --------------------------- text helpers ------------------------------ *)
UpperChars == <<"A","B","C","D","E","F","G","H","I","J","K","L","M",
                "N","O","P","Q","R","S","T","U","V","W","X","Y","Z">>
LowerChars == <<"a","b","c","d","e","f","g","h","i","j","k","l","m",
                "n","o","p","q","r","s","t","u","v","w","x","y","z">>
DigitChars == <<"0","1","2","3","4","5","6","7","8","9">>

Range(f) == {f[i] : i \in DOMAIN f}

RECURSIVE Str(_)
Str(s) == IF s = <<>> THEN "" ELSE Head(s) \o Str(Tail(s))

\* str.lower(), one character
LowerChar(c) ==
    IF \E i \in DOMAIN UpperChars : UpperChars[i] = c
    THEN LowerChars[CHOOSE i \in DOMAIN UpperChars : UpperChars[i] = c]
    ELSE c

\* str.lower()
Lower(s) == [i \in DOMAIN s |-> LowerChar(s[i])]

StartsWith(s, pat) ==
    /\ Len(s) >= Len(pat)
    /\ SubSeq(s, 1, Len(pat)) = pat

\* str.replace(pat, rep): leftmost occurrences, not overlapping
RECURSIVE Replace(_, _, _)
Replace(s, pat, rep) ==
    IF s = <<>> THEN <<>>
    ELSE IF StartsWith(s, pat)
         THEN rep \o Replace(SubSeq(s, Len(pat) + 1, Len(s)), pat, rep)
         ELSE <<Head(s)>> \o Replace(Tail(s), pat, rep)

\* the characters [a-z0-9\-] of the pattern at line 201
SlugChars == Range(LowerChars) \cup Range(DigitChars) \cup {"-"}

\* re.sub(r'[^a-z0-9\-]', '', s)
RemoveInvalid(s) == SelectSeq(s, LAMBDA c : c \in SlugChars)

WhiteSpace == {" ", "\t", "\n"}

RECURSIVE LStrip(_)
LStrip(s) == IF s # <<>> /\ Head(s) \in WhiteSpace THEN LStrip(Tail(s)) ELSE s

RECURSIVE RStrip(_)
RStrip(s) ==
    IF s # <<>> /\ s[Len(s)] \in WhiteSpace
    THEN RStrip(SubSeq(s, 1, Len(s) - 1)) ELSE s

\* str.strip()
Strip(s) == RStrip(LStrip(s))

\* str(n) of a natural number
RECURSIVE DecChars(_)
DecChars(n) ==
    IF n < 10 THEN <<DigitChars[n + 1]>>
    ELSE DecChars(n \div 10) \o <<DigitChars[(n % 10) + 1]>>

DecStr(n) == Str(DecChars(n))

\* ", ".join(names)
RECURSIVE JoinComma(_)
JoinComma(names) ==
    IF names = <<>> THEN ""
    ELSE IF Len(names) = 1 THEN names[1]
    ELSE names[1] \o ", " \o JoinComma(Tail(names))

(* ---------------------------- vocabulary ------------------------------- *)
action_mapping ==
       ("count_pods" :> "count_resources")
    @@ ("count_deployments" :> "count_resources")
    @@ ("count_nodes" :> "count_resources")
    @@ ("count_services" :> "count_resources")
    @@ ("get_pod_status" :> "get_status")
    @@ ("get_deployment_status" :> "get_status")
    @@ ("get_service_status" :> "get_status")
    @@ ("list_pods" :> "list_resources")
    @@ ("list_deployments" :> "list_resources")
    @@ ("list_services" :> "list_resources")
    @@ ("get_pod_logs" :> "get_logs")
    @@ ("describe_pod" :> "describe_resource")
    @@ ("describe_deployment" :> "describe_resource")
    @@ ("get_pod_details" :> "describe_resource")
    @@ ("get_resource_detail" :> "get_resource_detail")

resource_type_mapping ==
       ("pods" :> "pod")
    @@ ("pod" :> "pod")
    @@ ("po" :> "pod")
    @@ ("p" :> "pod")
    @@ ("deployments" :> "deployment")
    @@ ("deployment" :> "deployment")
    @@ ("deploy" :> "deployment")
    @@ ("dep" :> "deployment")
    @@ ("services" :> "service")
    @@ ("service" :> "service")
    @@ ("svc" :> "service")
    @@ ("nodes" :> "node")
    @@ ("node" :> "node")
    @@ ("no" :> "node")
    @@ ("configmaps" :> "configmap")
    @@ ("configmap" :> "configmap")
    @@ ("cm" :> "configmap")
    @@ ("secrets" :> "secret")
    @@ ("secret" :> "secret")
    @@ ("sec" :> "secret")
    @@ ("namespaces" :> "namespace")
    @@ ("namespace" :> "namespace")
    @@ ("ns" :> "namespace")
    @@ ("endpoints" :> "endpoint")
    @@ ("endpoint" :> "endpoint")
    @@ ("ep" :> "endpoint")
    @@ ("ingresses" :> "ingress")
    @@ ("ingress" :> "ingress")
    @@ ("ing" :> "ingress")
    @@ ("persistentvolumeclaims" :> "persistentvolumeclaim")
    @@ ("persistentvolumeclaim" :> "persistentvolumeclaim")
    @@ ("pvc" :> "persistentvolumeclaim")
    @@ ("persistentvolumes" :> "persistentvolume")
    @@ ("persistentvolume" :> "persistentvolume")
    @@ ("pv" :> "persistentvolume")
    @@ ("replicasets" :> "replicaset")
    @@ ("replicaset" :> "replicaset")
    @@ ("rs" :> "replicaset")
    @@ ("statefulsets" :> "statefulset")
    @@ ("statefulset" :> "statefulset")
    @@ ("sts" :> "statefulset")
    @@ ("daemonsets" :> "daemonset")
    @@ ("daemonset" :> "daemonset")
    @@ ("ds" :> "daemonset")
    @@ ("jobs" :> "job")
    @@ ("job" :> "job")
    @@ ("cronjobs" :> "cronjob")
    @@ ("cronjob" :> "cronjob")
    @@ ("cj" :> "cronjob")
    @@ ("roles" :> "role")
    @@ ("role" :> "role")
    @@ ("rolebindings" :> "rolebinding")
    @@ ("rolebinding" :> "rolebinding")
    @@ ("rb" :> "rolebinding")
    @@ ("clusterroles" :> "clusterrole")
    @@ ("clusterrole" :> "clusterrole")
    @@ ("cr" :> "clusterrole")
    @@ ("clusterrolebindings" :> "clusterrolebinding")
    @@ ("clusterrolebinding" :> "clusterrolebinding")
    @@ ("crb" :> "clusterrolebinding")
    @@ ("registry" :> "deployment")
    @@ ("persistent volume" :> "persistentvolume")

\* normalize_action_type on an action that is a string
normalize_action_type(action_type) ==
    IF action_type \in DOMAIN action_mapping
    THEN action_mapping[action_type] ELSE action_type

\* normalize_resource_type without lower()
normalize_resource_type_case_kept(resource_type) ==
    LET raw == Str(resource_type)
    IN  IF raw \in DOMAIN resource_type_mapping
        THEN resource_type_mapping[raw] ELSE raw

\* normalize_resource_type: the argument is a tuple of characters
normalize_resource_type(resource_type) ==
    LET low == Str(Lower(resource_type))
    IN  IF low \in DOMAIN resource_type_mapping
        THEN resource_type_mapping[low] ELSE low

\* normalize_resource_name: the argument and the result are tuples of characters
normalize_resource_name(resource_name) ==
    LET s0 == Lower(resource_name)
        s1 == Replace(Replace(s0, <<" ","s","v","c">>, <<>>),
                      <<" ","s","e","r","v","i","c","e">>, <<>>)
        s2 == Replace(Replace(s1, <<" ","p","o","d">>, <<>>),
                      <<" ","d","e","p","l","o","y","m","e","n","t">>, <<>>)
        s3 == Replace(s2, <<" ">>, <<"-">>)
        s4 == RemoveInvalid(s3)
    IN  Strip(s4)

\* simplify_name: re.sub(r'-[a-z0-9]{9,}$', '', name); the suffix class holds
\* no hyphen, so only the last hyphen of the name can start the match
HashChars == Range(LowerChars) \cup Range(DigitChars)

simplify_name(name) ==
    LET cuts == {i \in DOMAIN name :
                    /\ name[i] = "-"
                    /\ Len(name) - i >= 9
                    /\ \A j \in (i + 1)..Len(name) : name[j] \in HashChars}
    IN  IF cuts = {} THEN name
        ELSE SubSeq(name, 1, (CHOOSE i \in cuts : \A k \in cuts : i <= k) - 1)

(* --------------------------- Python values ----------------------------- *)
\* A value the interpreter can put under a key of the raw intent:
\*   [t |-> "absent"]  the key is missing      [t |-> "none"]  JSON null
\*   [t |-> "str", v |-> ...]  a string        [t |-> "list"]  a JSON array
Absent == [t |-> "absent", v |-> <<>>]
None   == [t |-> "none", v |-> <<>>]
AList  == [t |-> "list", v |-> <<>>]
S(v)   == [t |-> "str", v |-> v]

\* dict.get(key): a missing key reads as None
Get(x) == IF x.t = "absent" THEN None ELSE x

\* bool(x) of a value read with dict.get, its string part a TLA+ string
Truthy(x) == x.t = "str" /\ x.v # ""

\* bool(x) of a value read with dict.get, its string part a tuple of characters
TruthyName(x) == x.t = "str" /\ x.v # <<>>

\* f"{x}" of a value whose string part is a TLA+ string
Fmt(x) == IF x.t = "str" THEN x.v ELSE IF x.t = "list" THEN "[]" ELSE "None"

\* f"{x}" of a value whose string part is a tuple of characters
FmtName(x) == IF x.t = "str" THEN Str(x.v) ELSE "None"

(* ------------------------------ inputs --------------------------------- *)
\* request bodies of POST /query: t is the JSON type of the body, q the value
\* under "query" when the body is an object
Queries == {"what's trending in my cluster", "how many pods"}

Bodies ==
    {[t |-> k, q |-> Absent] : k \in {"absent", "null", "list", "str"}}
    \cup {[t |-> "obj", q |-> x] :
            x \in {Absent, None, AList, [t |-> "int", v |-> "123"],
                   S("what's trending in my cluster")}}

\* raw action values of the interpreter's reply
CountSynonyms == {"count_pods", "count_deployments", "count_nodes", "count_services"}
ListActions == {"list_resources", "list_pods", "list_deployments", "list_services"}
DetailActions == {"get_resource_detail"}
\* the actions whose handlers search the namespaces for a named resource
LocateActions == {"get_status", "get_pod_status", "get_logs", "get_pod_logs",
                  "describe_resource", "get_pod_details"}
OtherActions == {"restart_pod", "Count_Pods"}

\* raw resource types, as tuples of characters
CountableTypes ==
    {<<"p","o","d","s">>, <<"p","o","d">>, <<"p","o">>, <<"p">>, <<"P","o","d","s">>, <<"P","O","D">>,
     <<"d","e","p","l","o","y","m","e","n","t","s">>, <<"d","e","p","l","o","y","m","e","n","t">>, <<"d","e","p","l","o","y">>, <<"d","e","p">>, <<"r","e","g","i","s","t","r","y">>, <<"D","e","p","l","o","y">>,
     <<"s","e","r","v","i","c","e","s">>, <<"s","e","r","v","i","c","e">>, <<"s","v","c">>, <<"S","V","C">>,
     <<"n","o","d","e","s">>, <<"n","o","d","e">>, <<"n","o">>, <<"N","o","d","e","s">>}
UncountableTypes == {<<"n","a","m","e","s","p","a","c","e","s">>, <<"p","v">>, <<"p","e","r","s","i","s","t","e","n","t"," ","v","o","l","u","m","e">>, <<"c","m">>, <<"w","i","d","g","e","t">>}
CoreTypes == {<<"p","o","d","s">>, <<"D","e","p","l","o","y">>, <<"s","v","c">>, <<"n","o","d","e">>}

\* raw resource names, as tuples of characters
RawNames == {<<"w","e","b">>, <<"M","y"," ","W","e","b"," ","S","e","r","v","i","c","e">>, <<" ","p","o","d">>, <<"!","!">>, <<>>}

Namespaces == {"team-a"}
Details == {"environment_variable", "mount_path", "readiness_probe_path",
            "container_port", "port", "namespace", "colour"}
StrOf(set) == {S(x) : x \in set}

\* the parameters object of a raw intent: t is its JSON type, has the keys
\* that `key in parameters` finds in it
Params(rt, rn, ns, detail, var, spec) ==
    [t |-> "dict", resource_type |-> rt, resource_name |-> rn, namespace |-> ns,
     detail |-> detail, variable_name |-> var, specific_detail |-> spec,
     query |-> Absent]

EmptyParams == Params(Absent, Absent, Absent, Absent, Absent, Absent)
NoParams == [EmptyParams EXCEPT !.t = "none"]
\* a JSON array in place of the object; the fields that are not absent are
\* the strings it holds: [], ["resource_type"] and ["namespace"]
EmptyListParams == [EmptyParams EXCEPT !.t = "list"]
ListParams == [EmptyParams EXCEPT !.t = "list", !.resource_type = S(<<>>)]
OtherListParams == [EmptyParams EXCEPT !.t = "list", !.namespace = S("")]

ParamsEmpty(p) ==
    \A k \in {"resource_type", "resource_name", "namespace", "detail",
              "variable_name", "specific_detail", "query"} : p[k].t = "absent"

\* `not parameters`
ParamsFalsy(p) == p.t = "none" \/ ParamsEmpty(p)

\* the raw intent interpret_query returns: t is the JSON type of the reply,
\* keys the keys that `key in reply` finds in it
Intent(act, par, qry) ==
    [t |-> "dict", keys |-> {"action", "parameters"},
     action |-> act, parameters |-> par, query |-> qry]

OddReply(type, keys) ==
    [t |-> type, keys |-> keys, action |-> Absent, parameters |-> NoParams,
     query |-> Absent]

QueryKeys == {Absent} \cup StrOf(Queries)

FallbackIntents ==
    {Intent(S("unknown"), par, q) :
        par \in {EmptyParams,
                 Params(S(<<"p","o","d","s">>), Absent, Absent, Absent, Absent, Absent)},
        q \in QueryKeys}
    \cup {Intent(act, par, q) :
            act \in {S("count_pods"), None},
            par \in {NoParams, EmptyParams, EmptyListParams},
            q \in QueryKeys}

CountIntents ==
    {Intent(S(a), Params(rt, rn, Absent, Absent, Absent, Absent), Absent) :
        a \in CountSynonyms \cup {"count_resources"},
        rt \in StrOf(CountableTypes \cup UncountableTypes) \cup {None},
        rn \in {Absent, None, S(<<"w","e","b">>)}}

LocateIntents ==
    {Intent(S(a), Params(rt, rn, ns, Absent, Absent, Absent), Absent) :
        a \in LocateActions,
        rt \in StrOf(CoreTypes) \cup {Absent},
        rn \in StrOf(RawNames) \cup {None},
        ns \in {Absent} \cup StrOf(Namespaces)}
    \cup {Intent(S(a), Params(S(<<"p","o","d">>), Absent, Absent, Absent, Absent, Absent),
                 Absent) :
            a \in LocateActions}

ListIntents ==
    {Intent(S(a), Params(rt, Absent, ns, Absent, Absent, Absent), Absent) :
        a \in ListActions,
        rt \in StrOf(CoreTypes \cup {<<"n","s">>}) \cup {None},
        ns \in {Absent, S("")} \cup StrOf(Namespaces)}

DetailIntents ==
    {Intent(S(a), Params(rt, rn, Absent, d, var, spec), Absent) :
        a \in DetailActions,
        rt \in StrOf(CoreTypes \cup {<<"p","v">>}),
        rn \in {Absent, S(<<"w","e","b">>), S(<<" ","p","o","d">>)},
        d \in {Absent} \cup StrOf(Details),
        var \in {Absent, S("DB_HOST")},
        spec \in {Absent, S("MISSING")}}

OtherIntents ==
    {Intent(act, par, Absent) :
        act \in StrOf(OtherActions) \cup {None, AList},
        par \in {Params(S(<<"p","o","d","s">>), S(<<"w","e","b">>), Absent, Absent, Absent, Absent),
                 Params(None, Absent, Absent, Absent, Absent, Absent),
                 Params(Absent, None, Absent, Absent, Absent, Absent),
                 Params(Absent, Absent, S("team-a"), Absent, Absent, Absent),
                 ListParams, OtherListParams}}
    \cup {Intent(S(a), ListParams, Absent) : a \in {"count_pods", "get_logs"}}
    \cup {Intent(S(a), OtherListParams, Absent) : a \in {"count_pods", "get_logs"}}

Intents ==
    FallbackIntents \cup CountIntents \cup LocateIntents \cup ListIntents
    \cup DetailIntents \cup OtherIntents

\* what the interpreter's model call can give back
Replies ==
    {OddReply(type, {}) : type \in {"raise", "notjson", "scalar"}}
    \cup {OddReply(type, keys) :
            type \in {"str", "list"}, keys \in SUBSET {"action", "parameters"}}
    \cup {OddReply("dict", keys) :
            keys \in (SUBSET {"action", "parameters"}) \ {{"action", "parameters"}}}
    \cup Intents

(* ------------------------------- state --------------------------------- *)
VARIABLES
    pc,          \* where the request is: idle, interpret, perform, a handler, respond, done
    body,        \* the JSON body of the request
    query,       \* query_request.query
    reply,       \* what the interpreter's model call gave back
    intent,      \* the raw intent interpret_query returned (`action` in the code)
    parameters,  \* the parameters handed to the handler
    cluster,     \* what the control plane answered to the handler's calls
    llm,         \* what the model answered to handle_unknown_action
    answer,      \* what perform_kubernetes_action returned or raised
    response,    \* the HTTP response
    calls,       \* the functions called while serving the request
    lookups,     \* the namespaced reads issued, in order: <<namespace, name>>
    prompt       \* the user_query placed in the fallback prompt

vars == <<pc, body, query, reply, intent, parameters, cluster, llm, answer, response,
          calls, lookups, prompt>>

NoBody == [t |-> "absent", q |-> Absent]
NoIntent == OddReply("none", {})
NoCluster ==
    [nsOk |-> TRUE, namespaces |-> <<>>, outcomes |-> <<>>, object |-> "none",
     listOk |-> TRUE, items |-> <<>>, readOk |-> TRUE, logs |-> ""]
NoLlm == [ok |-> TRUE, exec |-> TRUE, result |-> [t |-> "absent", v |-> "", items |-> <<>>]]
NoResponse == [status |-> 0, kind |-> "none", text |-> "", query |-> ""]

\* a function's outcome: exc names the exception it raised ("none": it returned)
Ret(text) == [exc |-> "none", t |-> "str", value |-> text]
Raise(e) == [exc |-> e, t |-> "none", value |-> ""]
NoAnswer == [exc |-> "none", t |-> "none", value |-> ""]

Init ==
    /\ pc = "idle"
    /\ body = NoBody
    /\ query = ""
    /\ reply = NoIntent
    /\ intent = NoIntent
    /\ parameters = EmptyParams
    /\ cluster = NoCluster
    /\ llm = NoLlm
    /\ answer = NoAnswer
    /\ response = NoResponse
    /\ calls = {}
    /\ lookups = <<>>
    /\ prompt = Absent

(* --------------------------- the HTTP layer ---------------------------- *)
JsonError(status, text) ==
    [status |-> status, kind |-> "error", text |-> text, query |-> ""]
JsonAnswer(q, a) ==
    [status |-> 200, kind |-> "answer", text |-> a, query |-> q]
\* a response the web framework writes itself, not a JSON object of the program
Framework(status) ==
    [status |-> status, kind |-> "framework", text |-> "", query |-> ""]

\* lines 42-48: the response that ends the request there, or NoResponse when
\* the request is validated.  request.get_json() refuses a request without a
\* JSON body or returns None; QueryRequest(**data) raises TypeError, which
\* nothing catches, for data that is no mapping; an integer under "query" is
\* coerced to a string or refused, depending on the pydantic release installed.
ValidationOutcomes(b) ==
    IF b.t = "absent" THEN {Framework(400), Framework(415), Framework(500)}
    ELSE IF b.t # "obj" THEN {Framework(500)}
    ELSE IF b.q.t = "str" THEN {NoResponse}
    ELSE IF b.q.t = "int"
    THEN {NoResponse, JsonError(400, "Invalid request format")}
    ELSE {JsonError(400, "Invalid request format")}

\* query_kubernetes, lines 40-50
query_kubernetes ==
    /\ pc = "idle"
    /\ \E b \in Bodies :
        \E r \in ValidationOutcomes(b) :
            /\ body' = b
            /\ response' = r
            /\ pc' = IF r = NoResponse THEN "interpret" ELSE "done"
            /\ query' = IF r = NoResponse THEN b.q.v ELSE query
    /\ UNCHANGED <<reply, intent, parameters, cluster, llm, answer, calls, lookups,
                   prompt>>

\* what lines 93-104 make of the model's reply: the exception raised, or none
interpret_outcome(r) ==
    IF r.t \in {"raise", "notjson", "scalar"} THEN "raise"
    ELSE IF "action" \notin r.keys \/ "parameters" \notin r.keys THEN "raise"
    ELSE "none"

\* interpret_query, lines 68-104, and the except clause of its caller, lines 63-65
interpret_query ==
    /\ pc = "interpret"
    /\ calls' = calls \cup {"interpret_query"}
    /\ \E r \in Replies :
        /\ reply' = r
        /\ IF interpret_outcome(r) = "raise"
           THEN /\ response' = JsonError(500, "An error occurred while processing your request.")
                /\ pc' = "done"
                /\ intent' = intent
           ELSE /\ intent' = r
                /\ pc' = "perform"
                /\ response' = response
    /\ UNCHANGED <<body, query, parameters, cluster, llm, answer, lookups, prompt>>

(* ------------------------------ dispatch ------------------------------- *)
ErrApi == "An error occurred while communicating with the Kubernetes API."
ErrGeneric == "An error occurred while performing the Kubernetes action."
NotUnderstood == "I did not understand the action required."

\* the keys of action_handlers, lines 224-232
action_handlers ==
    {"count_resources", "get_status", "list_resources", "get_logs",
     "describe_resource", "get_resource_detail", "unknown"}

\* perform_except with the last except clause left out
perform_except_api_only(r) ==
    IF r.exc = "ApiException" THEN Ret(ErrApi) ELSE r

\* the except clauses of perform_kubernetes_action, lines 243-249, applied to
\* the outcome r of its body
perform_except(r) ==
    IF r.exc = "ApiException" THEN Ret(ErrApi)
    ELSE IF r.exc # "none" THEN Ret(ErrGeneric)
    ELSE r

\* line 207: action.get("action") == "unknown" or not action.get("parameters")
ToFallback(a) ==
    \/ a.action.t = "str" /\ a.action.v = "unknown"
    \/ ParamsFalsy(a.parameters)

\* line 208: action.get("query", "Unknown query")
UserQuery(a) == IF a.query.t = "absent" THEN S("Unknown query") ELSE a.query

\* `key in parameters` finds the key, and normalizing what is under it raises
\* (a JSON array has no string keys, None has no lower())
NormalizeRaises(par, key) ==
    /\ par[key].t # "absent"
    /\ par.t # "dict" \/ par[key].t # "str"

\* lines 212-221: the parameters after normalization (mutated in place)
Normalized(par) ==
    [par EXCEPT
        !.resource_type =
            IF @.t = "str" THEN S(normalize_resource_type(@.v)) ELSE @,
        !.resource_name =
            IF @.t = "str" THEN S(normalize_resource_name(@.v)) ELSE @]

\* line 212 and line 234: the key looked up in action_handlers; None when the
\* action is no string
ActionType(a) ==
    IF a.action.t = "str" THEN normalize_action_type(a.action.v) ELSE "None"

\* perform_kubernetes_action up to the call of the handler, lines 205-240: the
\* route taken.  to is "return" (the function returns `out`), "fallback"
\* (line 210: handle_unknown_action is called with {"query": user_query}) or
\* "handler" (line 240: the handler of `name` is called with params)
Route(to, out, name, par) ==
    [to |-> to, out |-> out, name |-> name, params |-> par]

\* perform_route with a missing handler sent to the fallback
perform_route_miss_to_fallback(a) ==
    IF a.t # "dict"
    THEN Route("return", Raise("AttributeError"), "", EmptyParams)
    ELSE IF ToFallback(a) \/ (a.action.t # "list" /\ ActionType(a) \notin action_handlers)
    THEN Route("fallback", NoAnswer, "unknown",
               [EmptyParams EXCEPT !.query = UserQuery(a)])
    ELSE IF a.action.t = "list"
    THEN Route("return", Raise("TypeError"), "", EmptyParams)
    ELSE IF \/ NormalizeRaises(a.parameters, "resource_type")
            \/ NormalizeRaises(a.parameters, "resource_name")
    THEN Route("return", Raise("TypeError"), "", EmptyParams)
    ELSE IF a.parameters.t # "dict"
    THEN Route("return", Raise("AttributeError"), "", EmptyParams)
    ELSE Route("handler", NoAnswer, ActionType(a), Normalized(a.parameters))

perform_route(a) ==
    IF a.t # "dict"
    THEN Route("return", Raise("AttributeError"), "", EmptyParams)
    ELSE IF ToFallback(a)
    THEN Route("fallback", NoAnswer, "unknown",
               [EmptyParams EXCEPT !.query = UserQuery(a)])
    ELSE IF a.action.t = "list"
    THEN Route("return", Raise("TypeError"), "", EmptyParams)
    ELSE IF \/ NormalizeRaises(a.parameters, "resource_type")
            \/ NormalizeRaises(a.parameters, "resource_name")
    THEN Route("return", Raise("TypeError"), "", EmptyParams)
    ELSE IF ActionType(a) \notin action_handlers
    THEN Route("return", Ret(NotUnderstood), "", EmptyParams)
    ELSE IF a.parameters.t # "dict"
    THEN Route("return", Raise("AttributeError"), "", EmptyParams)
    ELSE Route("handler", NoAnswer, ActionType(a), Normalized(a.parameters))

\* perform_kubernetes_action, lines 205-249, up to the call of the handler
perform_kubernetes_action ==
    /\ pc = "perform"
    /\ calls' = calls \cup {"perform_kubernetes_action"}
    /\ LET r == perform_route(intent)
       IN  IF r.to = "return"
           THEN /\ answer' = perform_except(r.out)
                /\ pc' = "respond"
                /\ parameters' = parameters
           ELSE /\ pc' = r.name
                /\ parameters' = r.params
                /\ answer' = answer
    /\ UNCHANGED <<body, query, reply, intent, cluster, llm, response, lookups, prompt>>

(* --------------------------- the control plane ------------------------- *)
\* the name of the i-th namespace list_namespace returns
NsName(i) == "ns" \o DecStr(i)

\* what the control plane can answer to one handler: list_namespace fails
\* (nsOk false) or returns namespaces; outcomes[i] is the HTTP status of the
\* named read in namespaces[i]; variant picks the object a successful read
\* returns; a list call fails (listOk false) or returns items, a tuple of
\* names; a read that is not namespaced fails (readOk false) or returns logs
Statuses == {200, 404, 500}
ItemNames == {<<"w","e","b","-","a","p","p","-","7","f","9","c","8","d","6","b","5">>, <<"s","h","o","r","t","-","a","b","c">>}
LogTexts == {"", "started\n"}

RECURSIVE SeqsUpTo(_, _)
SeqsUpTo(set, n) ==
    IF n = 0 THEN {<<>>}
    ELSE LET shorter == SeqsUpTo(set, n - 1)
         IN  shorter \cup {Append(s, x) : s \in shorter, x \in set}

LocateReplies ==
    {[NoCluster EXCEPT !.nsOk = FALSE]}
    \cup {[NoCluster EXCEPT !.namespaces = [i \in 1..Len(o) |-> NsName(i)],
                            !.outcomes = o, !.object = v] :
            o \in SeqsUpTo(Statuses, MaxItems), v \in {"first", "second"}}

\* the object is told apart only when some read returns it
LocateRepliesUsed ==
    {c \in LocateReplies : c.object # "second" \/ 200 \in Range(c.outcomes)}

ListReplies ==
    {[NoCluster EXCEPT !.listOk = FALSE]}
    \cup {[NoCluster EXCEPT !.items = s] : s \in SeqsUpTo(ItemNames, MaxItems)}

ReadReplies ==
    {[NoCluster EXCEPT !.readOk = FALSE]}
    \cup {[NoCluster EXCEPT !.logs = s] : s \in LogTexts}

NoObject ==
    [kind |-> "none", blank |-> TRUE, phase |-> "", conditions |-> <<>>,
     type |-> "", env |-> <<>>, mounts |-> <<>>, probe |-> Absent, ports |-> <<>>]

\* the object a successful read of `kind` returns.  A read with the empty name
\* addresses the collection, and the client builds an object without spec and
\* status of what comes back (blank).
ObjectRead(kind, name, variant) ==
    IF name = <<>> THEN [NoObject EXCEPT !.kind = kind]
    ELSE IF variant = "first"
    THEN [kind |-> kind, blank |-> FALSE, phase |-> "Running",
          conditions |-> <<"Progressing", "Available">>, type |-> "ClusterIP",
          env |-> <<[name |-> "DB_HOST", value |-> "db.local"]>>,
          mounts |-> <<"/data", "/cache">>, probe |-> S("/healthz"),
          ports |-> <<80, 8443>>]
    ELSE [kind |-> kind, blank |-> FALSE, phase |-> "Pending",
          conditions |-> <<>>, type |-> "NodePort", env |-> <<>>,
          mounts |-> <<>>, probe |-> Absent, ports |-> <<>>]

\* what a handler did: its outcome, the namespaced reads it issued and the
\* control-plane methods it called
Did(out, looks, api) == [out |-> out, lookups |-> looks, api |-> api]

(* ----------------------------- the locator ----------------------------- *)
Located(exc, found, ns, looks) ==
    [exc |-> exc, found |-> found, namespace |-> ns, lookups |-> looks]

\* the loop of find_resource_in_all_namespaces, lines 520-530, from the i-th
\* namespace on.  A name that is None is refused by the client before any
\* request is sent (ValueError).
RECURSIVE SearchFrom(_, _, _, _)
SearchFrom(c, name, i, looks) ==
    IF i > Len(c.namespaces) THEN Located("none", FALSE, "None", looks)
    ELSE IF name.t # "str" THEN Located("ValueError", FALSE, "None", looks)
    ELSE LET namespace == c.namespaces[i]
             issued == Append(looks, <<namespace, Str(name.v)>>)
         IN  IF c.outcomes[i] = 200
             THEN Located("none", TRUE, namespace, issued)
             ELSE IF c.outcomes[i] # 404
             THEN \* logged, then `continue`
                  SearchFrom(c, name, i + 1, issued)
             ELSE SearchFrom(c, name, i + 1, issued)

\* find_resource_in_all_namespaces reading every namespace and keeping the
\* last one that has the resource
find_resource_last_match(c, name) ==
    LET all == [i \in DOMAIN c.namespaces |-> <<c.namespaces[i], FmtName(name)>>]
        hits == {i \in DOMAIN c.outcomes : c.outcomes[i] = 200}
    IN  IF ~c.nsOk THEN Located("ApiException", FALSE, "None", <<>>)
        ELSE IF name.t # "str" THEN SearchFrom(c, name, 1, <<>>)
        ELSE IF hits = {} THEN Located("none", FALSE, "None", all)
        ELSE Located("none", TRUE,
                     c.namespaces[CHOOSE i \in hits : \A k \in hits : k <= i], all)

\* find_resource_in_all_namespaces giving up after the first namespace
find_resource_first_namespace_only(c, name) ==
    IF ~c.nsOk THEN Located("ApiException", FALSE, "None", <<>>)
    ELSE SearchFrom([c EXCEPT !.namespaces = IF Len(@) > 1 THEN <<@[1]>> ELSE @],
                    name, 1, <<>>)

\* find_resource_in_all_namespaces, lines 517-530
find_resource_in_all_namespaces(c, name) ==
    IF ~c.nsOk THEN Located("ApiException", FALSE, "None", <<>>)
    ELSE SearchFrom(c, name, 1, <<>>)

\* the locator as a handler uses it: api_method is read_namespaced_<kind>
LocateApi(kind, loc) ==
    {"list_namespace"}
    \cup (IF loc.lookups # <<>> THEN {"read_namespaced_" \o kind} ELSE {})

(* ------------------------------ handlers ------------------------------- *)
CountKinds == {"pod", "deployment", "node", "service"}
LocateKinds == {"pod", "deployment", "service"}

\* the cluster-wide list call of a kind, lines 256-265
ListAllCall(kind) ==
    IF kind = "node" THEN "list_node"
    ELSE "list_" \o kind \o "_for_all_namespaces"

Title(kind) ==
    IF kind = "pod" THEN "Pod"
    ELSE IF kind = "deployment" THEN "Deployment" ELSE "Service"

NotFound(kind, rn) ==
    Title(kind) \o " '" \o FmtName(rn) \o "' not found in any namespace."

\* handle_count_resources, lines 252-270
count_resources(params, c) ==
    LET resource_type == Get(params.resource_type)
    IN  IF resource_type.t = "str" /\ resource_type.v \in CountKinds
        THEN IF c.listOk
             THEN Did(Ret(DecStr(Len(c.items))), <<>>, {ListAllCall(resource_type.v)})
             ELSE Did(Raise("ApiException"), <<>>, {ListAllCall(resource_type.v)})
        ELSE Did(Ret("Resource type '" \o Fmt(resource_type)
                     \o "' is not supported for counting."), <<>>, {})

\* the status field of lines 279, 286-287, 296
StatusOf(obj) ==
    IF obj.kind = "pod" THEN obj.phase
    ELSE IF obj.kind = "deployment"
    THEN (IF obj.conditions # <<>> THEN obj.conditions[Len(obj.conditions)]
          ELSE "Unknown")
    ELSE obj.type

\* handle_get_status, lines 272-301
get_status(params, c) ==
    LET resource_type == Get(params.resource_type)
        resource_name == Get(params.resource_name)
    IN  IF resource_type.t = "str" /\ resource_type.v \in LocateKinds
        THEN LET kind == resource_type.v
                 loc == find_resource_in_all_namespaces(c, resource_name)
                 api == LocateApi(kind, loc)
                 obj == ObjectRead(kind, resource_name.v, c.object)
             IN  IF loc.exc # "none" THEN Did(Raise(loc.exc), loc.lookups, api)
                 ELSE IF ~loc.found
                 THEN Did(Ret(NotFound(kind, resource_name)), loc.lookups, api)
                 ELSE IF obj.blank
                 THEN Did(Raise("AttributeError"), loc.lookups, api)
                 ELSE Did(Ret("The status of " \o kind \o " '"
                              \o FmtName(resource_name) \o "' in namespace '"
                              \o loc.namespace \o "' is '" \o StatusOf(obj) \o "'."),
                          loc.lookups, api)
        ELSE Did(Ret("Resource type '" \o Fmt(resource_type)
                     \o "' is not supported for status retrieval."), <<>>, {})

\* [simplify_name(x.metadata.name) for x in items]
RECURSIVE SimplifiedNames(_)
SimplifiedNames(items) ==
    IF items = <<>> THEN <<>>
    ELSE <<Str(simplify_name(Head(items)))>> \o SimplifiedNames(Tail(items))

RawNamesOf(items) == [i \in DOMAIN items |-> Str(items[i])]

\* handle_list_resources, lines 303-331
list_resources(params, c) ==
    LET resource_type == Get(params.resource_type)
        namespace == Get(params.namespace)
    IN  IF resource_type.t = "str" /\ resource_type.v \in LocateKinds
        THEN LET call == IF Truthy(namespace)
                         THEN "list_namespaced_" \o resource_type.v
                         ELSE ListAllCall(resource_type.v)
             IN  IF c.listOk
                 THEN Did(Ret(JoinComma(SimplifiedNames(c.items))), <<>>, {call})
                 ELSE Did(Raise("ApiException"), <<>>, {call})
        ELSE IF resource_type.t = "str" /\ resource_type.v = "namespace"
        THEN IF c.listOk
             THEN Did(Ret(JoinComma(RawNamesOf(c.items))), <<>>, {"list_namespace"})
             ELSE Did(Raise("ApiException"), <<>>, {"list_namespace"})
        ELSE Did(Ret("Resource type '" \o Fmt(resource_type)
                     \o "' is not supported for listing."), <<>>, {})

\* handle_get_logs, lines 333-344
get_logs(params, c) ==
    LET pod_name == Get(params.resource_name)
        loc == find_resource_in_all_namespaces(c, pod_name)
        api == LocateApi("pod", loc)
    IN  IF ~TruthyName(pod_name)
        THEN Did(Ret("Pod name is required to get logs."), <<>>, {})
        ELSE IF loc.exc # "none" THEN Did(Raise(loc.exc), loc.lookups, api)
        ELSE IF ~loc.found
        THEN Did(Ret(NotFound("pod", pod_name)), loc.lookups, api)
        ELSE IF c.readOk
        THEN Did(Ret(c.logs), loc.lookups, api \cup {"read_namespaced_pod_log"})
        ELSE Did(Raise("ApiException"), loc.lookups,
                 api \cup {"read_namespaced_pod_log"})

\* yaml.safe_dump(obj.to_dict()): a text that names what the object holds
yaml_safe_dump(obj) ==
    "kind: " \o obj.kind \o "\n"
    \o (IF obj.blank THEN "spec: null\nstatus: null\n"
        ELSE "status: " \o StatusOf(obj) \o "\n")

\* handle_describe_resource, lines 346-369
describe_resource(params, c) ==
    LET resource_type == Get(params.resource_type)
        resource_name == Get(params.resource_name)
    IN  IF resource_type.t = "str" /\ resource_type.v \in LocateKinds
        THEN LET kind == resource_type.v
                 loc == find_resource_in_all_namespaces(c, resource_name)
                 api == LocateApi(kind, loc)
                 obj == ObjectRead(kind, resource_name.v, c.object)
             IN  IF loc.exc # "none" THEN Did(Raise(loc.exc), loc.lookups, api)
                 ELSE IF ~loc.found
                 THEN Did(Ret(NotFound(kind, resource_name)), loc.lookups, api)
                 ELSE Did(Ret(yaml_safe_dump(obj)), loc.lookups, api)
        ELSE Did(Ret("Description not supported for resource type '"
                     \o Fmt(resource_type) \o "'."), <<>>, {})

\* the value of the environment variable `name`, lines 387-391 and 414-418
RECURSIVE EnvLookup(_, _)
EnvLookup(env, name) ==
    IF env = <<>> THEN Absent
    ELSE IF Head(env).name = name THEN S(Head(env).value)
    ELSE EnvLookup(Tail(env), name)

PortTexts(ports) == [i \in DOMAIN ports |-> DecStr(ports[i])]

UnsupportedDetail(detail, kind) ==
    "Detail '" \o Fmt(detail) \o "' is not supported for resource type '"
    \o kind \o "'."

\* lines 386-408, 413-424, 431-438: the sentence made of a located object
DetailOf(obj, rn, detail, variable_name, namespace) ==
    IF obj.kind \in {"pod", "deployment"}
          /\ detail.v = "environment_variable" /\ Truthy(variable_name)
    THEN LET value == EnvLookup(obj.env, variable_name.v)
         IN  IF value.t = "str"
             THEN "The value of the environment variable '" \o variable_name.v
                  \o "' is '" \o value.v \o "'."
             ELSE "Environment variable '" \o variable_name.v \o "' not found in "
                  \o obj.kind \o " '" \o rn \o "'."
    ELSE IF obj.kind \in {"pod", "deployment"} /\ detail.v = "mount_path"
    THEN "Mount paths for " \o obj.kind \o " '" \o rn \o "': "
         \o JoinComma(obj.mounts)
    ELSE IF obj.kind = "pod" /\ detail.v = "readiness_probe_path"
    THEN (IF obj.probe.t = "str"
          THEN "The readiness probe path for pod '" \o rn \o "' is '"
               \o obj.probe.v \o "'."
          ELSE "No readiness probe path found for pod '" \o rn \o "'.")
    ELSE IF obj.kind = "pod" /\ detail.v = "container_port"
    THEN "Container ports for pod '" \o rn \o "': " \o JoinComma(PortTexts(obj.ports))
    ELSE IF obj.kind = "service" /\ detail.v = "port"
    THEN "Ports for service '" \o rn \o "': " \o JoinComma(PortTexts(obj.ports))
    ELSE IF obj.kind = "service" /\ detail.v = "namespace"
    THEN "The service '" \o rn \o "' is deployed in the '" \o namespace
         \o "' namespace."
    ELSE UnsupportedDetail(detail, obj.kind)

\* the except clause of handle_get_resource_detail, lines 448-450
RetrievingFailed(reason) ==
    Ret("An error occurred while retrieving details: " \o reason)

\* handle_get_resource_detail, lines 371-450
get_resource_detail(params, c) ==
    LET resource_type == Get(params.resource_type)
        resource_name == Get(params.resource_name)
        detail == Get(params.detail)
        variable_name == IF Truthy(Get(params.variable_name))
                         THEN Get(params.variable_name)
                         ELSE Get(params.specific_detail)
    IN  IF ~TruthyName(resource_name) \/ ~Truthy(detail)
        THEN Did(Ret("Resource name and detail are required for getting resource details."),
                 <<>>, {})
        ELSE IF resource_type.t = "str" /\ resource_type.v \in LocateKinds
        THEN LET kind == resource_type.v
                 loc == find_resource_in_all_namespaces(c, resource_name)
                 api == LocateApi(kind, loc)
                 obj == ObjectRead(kind, resource_name.v, c.object)
             IN  IF loc.exc = "ApiException"
                 THEN Did(RetrievingFailed("Internal Server Error"), loc.lookups, api)
                 ELSE IF loc.exc # "none" THEN Did(Raise(loc.exc), loc.lookups, api)
                 ELSE IF ~loc.found
                 THEN Did(Ret(NotFound(kind, resource_name)), loc.lookups, api)
                 ELSE Did(Ret(DetailOf(obj, Str(resource_name.v), detail,
                                       variable_name, loc.namespace)),
                          loc.lookups, api)
        ELSE IF resource_type.t = "str" /\ resource_type.v = "persistentvolume"
        THEN IF ~c.readOk
             THEN Did(RetrievingFailed("Not Found"), <<>>, {"read_persistent_volume"})
             ELSE IF detail.v = "mount_path"
             THEN Did(Ret("PersistentVolume '" \o Str(resource_name.v)
                          \o "' details: {'capacity': None}"),
                      <<>>, {"read_persistent_volume"})
             ELSE Did(Ret(UnsupportedDetail(detail, resource_type.v)),
                      <<>>, {"read_persistent_volume"})
        ELSE Did(Ret("Resource type '" \o Fmt(resource_type)
                     \o "' is not supported for getting resource details."),
                 <<>>, {})

(* ------------------------ the fallback synthesizer --------------------- *)
CouldNotPerform ==
    "The requested action could not be performed. Please check the query or try again."
CouldNotExecute == "The command could not be executed."

\* the value the snippet leaves in `result`: absent, a string, an object with
\* an `items` list (items: the names), a dict, a list, an integer or None
Result(type, v, items) == [t |-> type, v |-> v, items |-> items]

Results ==
    {Result("absent", "", <<>>), Result("str", "3 pods are running", <<>>),
     Result("dict", "{}", <<>>), Result("list", "['web']", <<>>),
     Result("int", DecStr(MaxItems), <<>>), Result("none", "None", <<>>)}
    \cup {Result("itemlist", "", s) : s \in SeqsUpTo(ItemNames, MaxItems)}

\* what the model and the execution of its snippet can give: the model call
\* fails (ok false), the snippet raises (exec false), or result is left
LlmReplies ==
    {[NoLlm EXCEPT !.ok = FALSE], [NoLlm EXCEPT !.exec = FALSE]}
    \cup {[NoLlm EXCEPT !.result = r] : r \in Results}

\* eval_suggested_command, lines 490-500
eval_suggested_command(m) ==
    IF ~m.exec THEN Result("str", CouldNotExecute, <<>>)
    ELSE IF m.result.t = "absent" THEN Result("str", "Command executed.", <<>>)
    ELSE m.result

\* format_response, lines 502-509; a dict has an `items` attribute that is a
\* method, and iterating it raises
format_response(result) ==
    IF result.t = "str" THEN Ret(result.v)
    ELSE IF result.t = "itemlist"
    THEN Ret(JoinComma(SimplifiedNames(result.items)))
    ELSE IF result.t = "dict" THEN Raise("TypeError")
    ELSE Ret(result.v)

\* unknown_action without the try around the model call
unknown_action_model_call_unguarded(m) ==
    IF ~m.ok THEN Raise("APIConnectionError")
    ELSE LET r == format_response(eval_suggested_command(m))
         IN  IF r.exc # "none" THEN Ret(CouldNotPerform) ELSE r

\* handle_unknown_action, lines 464-488, given the model's reply
unknown_action(m) ==
    IF ~m.ok THEN Ret(CouldNotPerform)
    ELSE LET r == format_response(eval_suggested_command(m))
         IN  IF r.exc # "none" THEN Ret(CouldNotPerform) ELSE r

(* --------------------------- handler actions --------------------------- *)
\* a handler called at line 240 with the control plane answering c, and the
\* except clauses of lines 243-249 around it.  The replies of a handler that
\* calls nothing are not part of the state.
RunHandler(name, d, c) ==
    /\ answer' = perform_except(d.out)
    /\ lookups' = d.lookups
    /\ calls' = calls \cup {name} \cup d.api
    /\ cluster' = IF d.api = {} THEN NoCluster ELSE c
    /\ pc' = "respond"
    /\ UNCHANGED <<body, query, reply, intent, parameters, llm, response, prompt>>

handle_count_resources ==
    /\ pc = "count_resources"
    /\ \E c \in ListReplies :
        RunHandler("handle_count_resources", count_resources(parameters, c), c)

handle_get_status ==
    /\ pc = "get_status"
    /\ \E c \in LocateRepliesUsed :
        RunHandler("handle_get_status", get_status(parameters, c), c)

handle_list_resources ==
    /\ pc = "list_resources"
    /\ \E c \in ListReplies :
        RunHandler("handle_list_resources", list_resources(parameters, c), c)

handle_get_logs ==
    /\ pc = "get_logs"
    /\ \E c \in LocateRepliesUsed, r \in ReadReplies :
        /\ r = NoCluster \/ 200 \in Range(c.outcomes)
        /\ LET both == [c EXCEPT !.readOk = r.readOk, !.logs = r.logs]
           IN  RunHandler("handle_get_logs", get_logs(parameters, both), both)

handle_describe_resource ==
    /\ pc = "describe_resource"
    /\ \E c \in LocateRepliesUsed :
        RunHandler("handle_describe_resource", describe_resource(parameters, c), c)

handle_get_resource_detail ==
    /\ pc = "get_resource_detail"
    /\ \E c \in LocateRepliesUsed \cup ReadReplies :
        RunHandler("handle_get_resource_detail",
                   get_resource_detail(parameters, c), c)

\* handle_unknown_action, lines 452-488, called at line 210 or line 240
handle_unknown_action ==
    /\ pc = "unknown"
    /\ \E m \in LlmReplies :
        /\ llm' = m
        /\ answer' = perform_except(unknown_action(m))
    /\ prompt' = IF parameters.query.t = "absent" THEN S("Unknown query")
                 ELSE parameters.query
    /\ calls' = calls \cup {"handle_unknown_action"}
    /\ pc' = "respond"
    /\ UNCHANGED <<body, query, reply, intent, parameters, cluster, response, lookups>>

\* query_kubernetes, lines 56-65: the response made of the answer
query_kubernetes_respond ==
    /\ pc = "respond"
    /\ response' =
        IF answer.exc = "none" /\ answer.t = "str"
        THEN JsonAnswer(query, answer.value)
        ELSE JsonError(500, "An error occurred while processing your request.")
    /\ pc' = "done"
    /\ UNCHANGED <<body, query, reply, intent, parameters, cluster, llm, answer, calls,
                   lookups, prompt>>

Next ==
    \/ query_kubernetes
    \/ interpret_query
    \/ perform_kubernetes_action
    \/ handle_count_resources
    \/ handle_get_status
    \/ handle_list_resources
    \/ handle_get_logs
    \/ handle_describe_resource
    \/ handle_get_resource_detail
    \/ handle_unknown_action
    \/ query_kubernetes_respond

Spec == Init /\ [][Next]_vars

(* ------------------------------- claims -------------------------------- *)
Performed == pc \in {"respond", "done"} /\ "perform_kubernetes_action" \in calls

\* C1: when the raw intent has action "unknown" or absent/empty parameters,
\* handle_unknown_action is invoked and the query text in its prompt is the
\* text the client sent under "query".
C1_FallbackCarriesQuery ==
    (Performed /\ intent.t = "dict" /\ ToFallback(intent))
        => /\ "handle_unknown_action" \in calls
           /\ prompt.t = "str"
           /\ prompt.v = query

\* C2, as claimed: a raw intent with non-empty parameters whose normalized
\* action is none of the six canonical actions is answered by the fallback.
SixActions ==
    {"count_resources", "get_status", "list_resources", "get_logs",
     "describe_resource", "get_resource_detail"}

Unrecognized(a) ==
    /\ a.t = "dict"
    /\ ~ParamsFalsy(a.parameters)
    /\ a.action.t = "str"
    /\ normalize_action_type(a.action.v) \notin SixActions

WellTyped(par) ==
    /\ par.t = "dict"
    /\ par.resource_type.t \in {"absent", "str"}
    /\ par.resource_name.t \in {"absent", "str"}

Normalizable(par) ==
    \A key \in {"resource_type", "resource_name"} :
        par[key].t = "absent" \/ (par.t = "dict" /\ par[key].t = "str")

C3_PerformReturnsString ==
    Performed
        => /\ answer.exc = "none"
           /\ answer.t = "str"
           /\ (pc = "done" => response.status = 200 /\ response.text = answer.value)

\* a raw intent that is no object, and a control-plane call that failed
C3_Witness ==
    /\ pc = "done"
    /\ \/ intent.t = "list"
       \/ ~cluster.nsOk /\ "handle_get_status" \in calls
    /\ response.status = 200
    /\ response.text \in {ErrGeneric, ErrApi}

\* C4: in find_resource_in_all_namespaces a read that fails with a status
\* other than 404 ends the search: no later namespace is read and the outcome
\* is a failure, neither a resource of a later namespace nor "not found".
Searched == Performed /\ lookups # <<>>

C4_OtherErrorAborts ==
    Searched
        => \A i \in DOMAIN lookups :
              cluster.outcomes[i] \notin {200, 404}
                  => /\ i = Len(lookups)
                     /\ answer.value \in
                          {ErrApi, ErrGeneric,
                           "An error occurred while retrieving details: Internal Server Error"}

\* C5: GetStatus for a pod whose name exists in no namespace: the locator
\* reads every listed namespace, in the listed order, reports NotFound, and
\* the Answer is the "not found" sentence, neither a fault nor an error
\* sentence.
InNoNamespace ==
    /\ cluster.nsOk
    /\ \A i \in DOMAIN cluster.outcomes : cluster.outcomes[i] = 404

PodStatusAsked ==
    /\ Performed
    /\ "handle_get_status" \in calls
    /\ parameters.resource_type.t = "str"
    /\ parameters.resource_type.v = "pod"
    /\ parameters.resource_name.t = "str"

C5_PodNotFoundAnswer ==
    (PodStatusAsked /\ InNoNamespace)
        => /\ Len(lookups) = Len(cluster.namespaces)
           /\ \A i \in DOMAIN lookups :
                lookups[i] = <<cluster.namespaces[i], Str(parameters.resource_name.v)>>
           /\ answer.exc = "none"
           /\ answer.value = "Pod '" \o Str(parameters.resource_name.v)
                             \o "' not found in any namespace."
           /\ (pc = "done" => response.status = 200 /\ response.kind = "answer")

C5_Witness ==
    /\ pc = "done"
    /\ PodStatusAsked
    /\ InNoNamespace
    /\ Len(cluster.namespaces) = MaxItems
    /\ Len(lookups) = MaxItems
    /\ response.text = "Pod 'my-web' not found in any namespace."

\* C6, as claimed: in the fallback a failure of the model call or of the
\* execution of the snippet makes the Answer the "could not be performed"
\* sentence.
FellBack == Performed /\ "handle_unknown_action" \in calls

Malformed(b) == b.t # "obj" \/ b.q.t # "str"

C7_MalformedIs400 ==
    (pc # "idle" /\ Malformed(body))
        => /\ pc = "done"
           /\ response.status = 400
           /\ response.kind = "error"
           /\ calls = {}

\* C8: a reply of the interpreter that is no JSON, or no JSON object with
\* both an "action" and a "parameters" key, makes interpret_query fail: the
\* response is 500 with {"error": ...} and perform_kubernetes_action is not
\* called.
BadReply(r) ==
    \/ r.t # "dict"
    \/ ~({"action", "parameters"} \subseteq r.keys)

C8_BadReplyIs500 ==
    ("interpret_query" \in calls /\ BadReply(reply))
        => /\ pc = "done"
           /\ response.status = 500
           /\ response.kind = "error"
           /\ "perform_kubernetes_action" \notin calls

\* C9: a raw intent with action count_resources, count_pods,
\* count_deployments, count_nodes or count_services and with a resource_type
\* that is, in any letter case, a synonym of pod, deployment, node or service
\* (its resource_name, if any, a string) reaches the count handler with the
\* canonical kind, the handler makes the cluster-wide list call of that kind,
\* and the Answer is the decimal numeral of the number of objects returned.
KindSynonyms ==
    [pod |-> {"pods", "pod", "po", "p"},
     deployment |-> {"deployments", "deployment", "deploy", "dep", "registry"},
     service |-> {"services", "service", "svc"},
     node |-> {"nodes", "node", "no"}]

CountAsked(kind) ==
    /\ Performed
    /\ intent.t = "dict"
    /\ intent.action.t = "str"
    /\ intent.action.v \in {"count_resources", "count_pods", "count_deployments",
                            "count_nodes", "count_services"}
    /\ WellTyped(intent.parameters)
    /\ intent.parameters.resource_type.t = "str"
    /\ Str(Lower(intent.parameters.resource_type.v)) \in KindSynonyms[kind]

Numerals == <<"0", "1", "2", "3", "4", "5", "6", "7", "8", "9">>

NameHandlers ==
    {"handle_get_status", "handle_get_logs", "handle_describe_resource",
     "handle_get_resource_detail"}

EmptyNameGiven ==
    /\ Performed
    /\ calls \cap NameHandlers # {}
    /\ parameters.resource_name.t = "str"
    /\ parameters.resource_name.v = <<>>

C10_EmptyNameIsNoName ==
    EmptyNameGiven
        => /\ lookups = <<>>
           /\ answer.value \notin
                {"Pod '' not found in any namespace.",
                 "Deployment '' not found in any namespace.",
                 "Service '' not found in any namespace."}

\* C11: when several namespaces hold a resource of the requested name, the
\* locator returns the namespace that comes first in the order list_namespace
\* gave, and reads no namespace listed after it.
Holders == {i \in DOMAIN cluster.outcomes : cluster.outcomes[i] = 200}

SeveralHold ==
    /\ Searched
    /\ parameters.resource_name.t = "str"
    /\ Cardinality(Holders) >= 2

FirstHolder == CHOOSE i \in Holders : \A k \in Holders : i <= k

C11_FirstNamespaceWins ==
    SeveralHold
        => /\ Len(lookups) = FirstHolder
           /\ \A i \in DOMAIN lookups : lookups[i][1] = cluster.namespaces[i]
           /\ LET loc == find_resource_in_all_namespaces(cluster,
                                                         parameters.resource_name)
              IN  /\ loc.found
                  /\ loc.namespace = cluster.namespaces[FirstHolder]
                  /\ loc.lookups = lookups
           /\ ("handle_get_status" \in calls /\ parameters.resource_name.v # <<>>)
                => \E status \in {"Running", "Pending", "Available", "Unknown",
                                  "ClusterIP", "NodePort"} :
                      answer.value = "The status of " \o parameters.resource_type.v
                          \o " '" \o Str(parameters.resource_name.v)
                          \o "' in namespace '" \o cluster.namespaces[FirstHolder]
                          \o "' is '" \o status \o "'."

C11_Witness ==
    /\ pc = "done"
    /\ SeveralHold
    /\ "handle_get_status" \in calls
    /\ Len(cluster.namespaces) = MaxItems
    /\ Len(lookups) = 1
    /\ response.text = "The status of pod 'web' in namespace 'ns1' is 'Running'."

\* C12: when the intent supplies a namespace, GetStatus reads the named
\* resource in that namespace only, and the namespace in the Answer is the
\* supplied one.
ScopedStatusAsked ==
    /\ Performed
    /\ "handle_get_status" \in calls
    /\ parameters.namespace.t = "str"
    /\ parameters.namespace.v # ""

C12_SuppliedNamespaceOnly ==
    ScopedStatusAsked
        => \A i \in DOMAIN lookups : lookups[i][1] = parameters.namespace.v

\* C13: format_response renders every result of the snippet without raising:
\* a string unchanged, an object with a list of items as the comma-joined
\* simplified names, and every other value (a dict, a plain list, a number,
\* None) as its string form.
Rendered ==
    /\ FellBack
    /\ llm.ok
    /\ llm.exec
    /\ llm.result.t # "absent"

C13_EveryResultRendered ==
    Rendered
        => /\ answer.exc = "none"
           /\ answer.value =
                IF llm.result.t = "itemlist"
                THEN JoinComma(SimplifiedNames(llm.result.items))
                ELSE llm.result.v

====
